---- MODULE Spec2Model ----
(***************************************************************************)
(* A model of pytube's range streamer (request.py: stream, seq_stream), of *)
(* its transport (_execute_request, get, post, head, seq_filesize) and of  *)
(* the playlist pagination engine (contrib/playlist.py: _paginate,         *)
(* _extract_videos, trimmed).                                              *)
(*                                                                         *)
(* Bytes are strings.  The byte at offset i of a plain resource is the     *)
(* numeral of i, so that a lost, repeated or reordered byte is visible.    *)
(* In a header segment the byte "S" stands for the 15-byte literal         *)
(* `Segment-Count: ` of the regular expression, "CR" and "LF" for \r, \n.  *)
(***************************************************************************)
EXTENDS Integers, Sequences, FiniteSets, TLC

\* ------------------------------------------------------------------ bounds
\* Largest size, in bytes, of a plain resource served to stream().
MaxTotal == 9
\* Largest value of the max_retries argument.
MaxRetries == 2

\* -------------------------------------------------------- program constants
\* default_range_size (9437184 in the source), scaled down: only its relation
\* to the resource size (smaller, equal, larger, non-multiple) matters.
default_range_size == 4
\* default_chunk_size (4096 in the source), scaled down likewise.
default_chunk_size == 2

VARIABLES
    \* --- the server and the arguments of the call
    resource,        \* the bytes of the resource behind url
    hdrMode,         \* "always" | "never" | "sometimes": Content-Range sent
    bodyMode,        \* "exact" | "short" | "whole": the body is the range asked
                     \* for, or a prefix of it, or the whole resource
    max_retries,     \* argument of stream()
    \* --- locals of stream()
    file_size,
    downloaded,
    stop_pos,
    tries,
    response,        \* [headers, content]: content is the unread body
    pc,              \* "idle" | "while" | "try" | "read" | "done" | "raised"
    err,             \* the exception that left stream(), or "none"
    yielded,         \* concatenation of the chunks yielded so far
    \* --- history
    window_timeouts, \* timeouts the transport produced in this range window
    recovered,       \* TRUE once a request succeeded after timeouts of its window
    answered,        \* TRUE once a request of this call was answered
    size_known,      \* TRUE once file_size was read from a Content-Range header
    total_timeouts,  \* timeouts in all windows so far, up to max_retries + 1
    \* --- locals of seq_stream()
    sq,              \* querys['sq']: the segment the current url names
    segment_data,
    segment_count,   \* << >> while the name is unbound, else <<n>>
    seq_num,
    seq_pc,          \* "idle" | "header" | "done" | "raised"
    seq_err,         \* the exception that left seq_stream(), or "none"
    seq_yielded,     \* concatenation of the chunks seq_stream() yielded
    requested,       \* the segment numbers a request was sent for
    \* --- Playlist._paginate()
    until_watch_id,  \* argument: None or a video id
    videos_urls,
    continuation,
    data,            \* body of the continuation request being built or sent
    pg_pc,           \* "idle" | "start" | "yielded" | "posting" | "done" | "raised"
    pg_err,          \* the exception that left _paginate(), or "none"
    pg_yielded,      \* the pages yielded so far
    pages,           \* history: every page loaded, with what was extracted
    requests,        \* history: every continuation request posted
    \* --- one call of Playlist._extract_videos()
    raw_json,
    extracted,       \* its result, once ext_pc = "done"
    ext_pc,          \* "idle" | "call" | "done"
    \* --- the aiohttp session every entry point is handed
    session_closed,  \* TRUE once session.close() was awaited
    \* --- one call of get(), post() or head(), down to _execute_request()
    req_url,         \* argument url: a sequence of characters
    req_method,      \* "GET" | "POST" | "HEAD"
    req_timeout,     \* argument timeout of the caller, in seconds
    req_pc,          \* "idle" | "call" | "done" | "raised"
    req_err,         \* the exception that left the call, or "none"
    resp_status,     \* << >>, or <<status>> of the response session.request() gave
    sent,            \* the calls of session.request(), in order
    \* --- one call of seq_filesize()
    sf_header,       \* the bytes of the sq=0 segment on the server
    seg_lengths,     \* content-length the server reports for segment 1, 2, ..
    sf_pc,           \* "idle" | "call" | "done" | "raised"
    sf_err,          \* the exception that left seq_filesize(), or "none"
    sf_result,       \* << >>, or <<total_filesize>> returned
    sf_heads,        \* the segment numbers a HEAD request was sent for
    \* --- one call of Playlist.trimmed()
    playlist,        \* the video ids of the playlist, in order
    video_id,        \* argument of trimmed()
    tr_pc,           \* "idle" | "call" | "done" | "raised"
    tr_err,          \* the exception that left trimmed(), or "none"
    tr_yielded,      \* what trimmed() yielded so far
    \* --- successive calls of filesize() and seq_filesize(), one (url, session)
    content_length,  \* content-length the server reports for url, in digits
    size_cache,      \* per function: the lru_cache entry of (url, session)
    size_calls       \* history: [fn, err, result] of every call, in order

streamVars == <<resource, hdrMode, bodyMode, max_retries, file_size, downloaded,
                stop_pos, tries, response, pc, err, yielded,
                window_timeouts, recovered, answered, size_known,
                total_timeouts>>

\* The history variables of stream() that most steps leave alone.
streamHist == <<answered, size_known, total_timeouts>>

seqVars == <<sq, segment_data, segment_count, seq_num, seq_pc, seq_err,
             seq_yielded, requested>>

pageVars == <<until_watch_id, videos_urls, continuation, data, pg_pc, pg_err,
              pg_yielded, pages, requests>>

extractVars == <<raw_json, extracted, ext_pc>>

requestVars == <<session_closed, req_url, req_method, req_timeout, req_pc,
                 req_err, resp_status, sent>>

filesizeVars == <<sf_header, seg_lengths, sf_pc, sf_err, sf_result, sf_heads>>

trimmedVars == <<playlist, video_id, tr_pc, tr_err, tr_yielded>>

cacheVars == <<content_length, size_cache, size_calls>>

notStreamVars == <<seqVars, pageVars, extractVars, requestVars, filesizeVars,
                   trimmedVars, cacheVars>>

vars == <<streamVars, seqVars, pageVars, extractVars, requestVars,
          filesizeVars, trimmedVars, cacheVars>>

\* ------------------------------------------------------------------ helpers
Min(a, b) == IF a <= b THEN a ELSE b

\* The content of a plain resource of n bytes.
PlainResource(n) == [i \in 1..n |-> ToString(i - 1)]

\* bytes [start, stop] of res (0-based, inclusive), clamped to the resource:
\* what a server answers to "Range: bytes=start-stop".
RangeBytes(res, start, stop) ==
    IF start >= Len(res) THEN << >>
    ELSE SubSeq(res, start + 1, Min(stop, Len(res) - 1) + 1)

Prefixes(s) == { SubSeq(s, 1, k) : k \in 0..Len(s) }

\* ---------------------------------------------------------- decimal numbers
\* A number travels as text: a sequence of characters.
DigitChars == <<"0", "1", "2", "3", "4", "5", "6", "7", "8", "9">>
IsDigit(c) == \E d \in 1..10 : DigitChars[d] = c
DigitVal(c) == (CHOOSE d \in 1..10 : DigitChars[d] = c) - 1

\* str(n) for n >= 0
RECURSIVE Decimal(_)
Decimal(n) ==
    IF n < 10 THEN <<DigitChars[n + 1]>>
    ELSE Decimal(n \div 10) \o <<DigitChars[(n % 10) + 1]>>

\* int(s) accepts a non-empty run of decimal digits (ValueError otherwise)
IsDecimal(s) == Len(s) > 0 /\ \A i \in 1..Len(s) : IsDigit(s[i])

RECURSIVE IntOf(_)
IntOf(s) ==
    IF Len(s) = 0 THEN 0
    ELSE 10 * IntOf(SubSeq(s, 1, Len(s) - 1)) + DigitVal(s[Len(s)])

\* ------------------------------------------------------ Content-Range header
\* A Content-Range header value is the sequence of its "/"-separated fields,
\* each a sequence of characters ("bytes 0-3/9" is <<"bytes 0-3", "9">>, the
\* range part kept as one character); the header may be missing altogether.
NoHeaders == [present |-> FALSE, fields |-> << >>]
ContentRange(fields) == [present |-> TRUE, fields |-> fields]
GoodHeader(res) == ContentRange(<< <<"bytes s-e">>, Decimal(Len(res)) >>)
BadHeaders ==
    { NoHeaders,
      ContentRange(<< <<"bytes s-e">> >>),
      ContentRange(<< <<"bytes s-e">>, <<"*">> >>) }

\* int(response.headers["Content-Range"].split("/")[1])   (lines 207-208):
\* KeyError (no header), IndexError (no "/") and ValueError (no number) are
\* caught (line 209) and leave file_size as it was.
ParseFails_Mutant(h) == TRUE
ParseFails(h) ==
    \/ ~h.present
    \/ Len(h.fields) < 2
    \/ ~IsDecimal(h.fields[2])

ParsedFileSize(h, old) == IF ParseFails(h) THEN old ELSE IntOf(h.fields[2])

\* stop_pos = min(downloaded + default_range_size, file_size) - 1
StopPos(d, fs) == Min(d + default_range_size, fs) - 1

\* tries = 0   (line 176), at the start of every range window: the value of
\* tries after it, given the value before.
WindowTries_Mutant(t) == t
WindowTries(t) == 0

\* What can go wrong with a request: URLError whose reason is socket.timeout
\* ("timeout"), URLError of another reason, PytubeError (status 400, line 49),
\* ValueError (invalid url, lines 54 and 56).
Failures == {"timeout", "URLError", "PytubeError", "ValueError"}

\* except URLError as e: if isinstance(e.reason, socket.timeout): pass
\* else: raise   (lines 193-199); nothing else is caught.
Swallowed_Mutant(e) == e \in {"timeout", "URLError"}
Swallowed(e) == e = "timeout"

\* downloaded += len(chunk)   (line 215)
Advance_Mutant(d, chunk) == d + default_chunk_size
Advance(d, chunk) == d + Len(chunk)

\* if tries >= 1 + max_retries: raise MaxRetriesExceeded()
RetriesExceeded_Mutant(t, m) == t >= m
RetriesExceeded(t, m) == t >= 1 + m

\* The responses the server may give to "Range: bytes=start-stop": a server
\* that honours the header sends the range, or less when the connection ends
\* early; a server that ignores it sends the whole resource.
Responses(start, stop) ==
    LET exact == RangeBytes(resource, start, stop)
        bodies == CASE bodyMode = "exact" -> {exact}
                    [] bodyMode = "short" -> Prefixes(exact)
                    [] OTHER -> {resource}
        hdrs == CASE hdrMode = "always" -> {GoodHeader(resource)}
                  [] hdrMode = "never" -> BadHeaders
                  [] OTHER -> BadHeaders \cup {GoodHeader(resource)}
    IN  { [headers |-> h, content |-> b] : h \in hdrs, b \in bodies }

NoResponse == [headers |-> NoHeaders, content |-> << >>]

\* --------------------------------------------------------------------- Init
StreamStart ==
    /\ hdrMode \in {"always", "never", "sometimes"}
    /\ bodyMode \in {"exact", "short", "whole"}
    /\ max_retries \in 0..MaxRetries
    /\ file_size = default_range_size
    /\ downloaded = 0
    /\ stop_pos = 0
    /\ tries = 0
    /\ response = NoResponse
    /\ pc = "while"
    /\ err = "none"
    /\ yielded = << >>
    /\ window_timeouts = 0
    /\ recovered = FALSE
    /\ answered = FALSE
    /\ size_known = FALSE
    /\ total_timeouts = 0

\* stream() is not running.
StreamIdle ==
    /\ resource = << >>
    /\ hdrMode = "always"
    /\ bodyMode = "exact"
    /\ max_retries = 0
    /\ file_size = default_range_size
    /\ downloaded = 0
    /\ stop_pos = 0
    /\ tries = 0
    /\ response = NoResponse
    /\ pc = "idle"
    /\ err = "none"
    /\ yielded = << >>
    /\ window_timeouts = 0
    /\ recovered = FALSE
    /\ answered = FALSE
    /\ size_known = FALSE
    /\ total_timeouts = 0

SeqIdle ==
    /\ sq = 0
    /\ segment_data = << >>
    /\ segment_count = << >>
    /\ seq_num = 0
    /\ seq_pc = "idle"
    /\ seq_err = "none"
    /\ seq_yielded = << >>
    /\ requested = {}

\* Python's None.
None == "<None>"

\* None in the place of the request body (a dict otherwise).
NoData == [continuation |-> None, context |-> None]

PageIdle ==
    /\ until_watch_id = None
    /\ videos_urls = << >>
    /\ continuation = None
    /\ data = NoData
    /\ pg_pc = "idle"
    /\ pg_err = "none"
    /\ pg_yielded = << >>
    /\ pages = << >>
    /\ requests = << >>

ExtractIdle ==
    /\ raw_json = None
    /\ extracted = None
    /\ ext_pc = "idle"

RequestIdle ==
    /\ session_closed = FALSE
    /\ req_url = << >>
    /\ req_method = "GET"
    /\ req_timeout = 0
    /\ req_pc = "idle"
    /\ req_err = "none"
    /\ resp_status = << >>
    /\ sent = << >>

FilesizeIdle ==
    /\ sf_header = << >>
    /\ seg_lengths = << >>
    /\ sf_pc = "idle"
    /\ sf_err = "none"
    /\ sf_result = << >>
    /\ sf_heads = << >>

TrimmedIdle ==
    /\ playlist = << >>
    /\ video_id = None
    /\ tr_pc = "idle"
    /\ tr_err = "none"
    /\ tr_yielded = << >>

\* Neither size query was called yet.
NoCoroutine == "none"
EmptyCache == [filesize |-> NoCoroutine, seq_filesize |-> NoCoroutine]

CacheIdle ==
    /\ content_length = <<"0">>
    /\ size_cache = EmptyCache
    /\ size_calls = << >>

\* A call of stream() on a plain resource.
InitStream ==
    /\ resource \in { PlainResource(n) : n \in 0..MaxTotal }
    /\ StreamStart
    /\ SeqIdle
    /\ PageIdle
    /\ ExtractIdle
    /\ RequestIdle
    /\ FilesizeIdle
    /\ TrimmedIdle
    /\ CacheIdle

\* ---------------------------------------------------------- stream() actions
\* while downloaded < file_size: ... tries = 0   (lines 173-176), or return.
StreamWhile ==
    /\ pc = "while"
    /\ IF downloaded < file_size
       THEN /\ stop_pos' = StopPos(downloaded, file_size)
            /\ tries' = WindowTries(tries)
            /\ window_timeouts' = 0
            /\ pc' = "try"
       ELSE /\ pc' = "done"
            /\ UNCHANGED <<stop_pos, tries, window_timeouts>>
    /\ UNCHANGED <<resource, hdrMode, bodyMode, max_retries, file_size,
                   downloaded, response, err, yielded, recovered, streamHist>>

\* if tries >= 1 + max_retries: raise MaxRetriesExceeded()   (lines 181-182)
StreamMaxRetries ==
    /\ pc = "try"
    /\ RetriesExceeded(tries, max_retries)
    /\ pc' = "raised"
    /\ err' = "MaxRetriesExceeded"
    /\ UNCHANGED <<resource, hdrMode, bodyMode, max_retries, file_size,
                   downloaded, stop_pos, tries, response, yielded,
                   window_timeouts, recovered, streamHist>>

\* The request succeeds: break (line 202), then learn file_size from the
\* Content-Range header while it still is the placeholder (lines 205-210).
StreamRequestOk ==
    /\ pc = "try"
    /\ ~RetriesExceeded(tries, max_retries)
    /\ \E r \in Responses(downloaded, stop_pos) :
         /\ response' = r
         /\ file_size' = IF file_size = default_range_size
                         THEN ParsedFileSize(r.headers, file_size)
                         ELSE file_size
         /\ size_known' = (size_known \/ (file_size = default_range_size
                                             /\ ~ParseFails(r.headers)))
    /\ recovered' = (recovered \/ window_timeouts > 0)
    /\ answered' = TRUE
    /\ pc' = "read"
    /\ UNCHANGED <<resource, hdrMode, bodyMode, max_retries, downloaded,
                   stop_pos, tries, err, yielded, window_timeouts,
                   total_timeouts>>

\* The request fails in a way the handler swallows (URLError whose reason is
\* socket.timeout): tries += 1 and the loop goes round (lines 193-197, 203).
StreamRequestTimeout ==
    /\ pc = "try"
    /\ ~RetriesExceeded(tries, max_retries)
    /\ \E e \in Failures :
         /\ Swallowed(e)
         /\ window_timeouts' = IF e = "timeout" THEN window_timeouts + 1
                                ELSE window_timeouts
         /\ total_timeouts' = IF e = "timeout"
                               THEN Min(total_timeouts + 1, max_retries + 1)
                               ELSE total_timeouts
    /\ tries' = tries + 1
    /\ UNCHANGED <<resource, hdrMode, bodyMode, max_retries, file_size,
                   downloaded, stop_pos, response, pc, err, yielded, recovered,
                   answered, size_known>>

\* The request fails in any other way: another URLError is re-raised
\* (line 199), PytubeError and ValueError are not caught at all.
StreamRequestError ==
    /\ pc = "try"
    /\ ~RetriesExceeded(tries, max_retries)
    /\ \E e \in Failures : ~Swallowed(e) /\ err' = e
    /\ pc' = "raised"
    /\ UNCHANGED <<resource, hdrMode, bodyMode, max_retries, file_size,
                   downloaded, stop_pos, tries, response, yielded,
                   window_timeouts, recovered, streamHist>>

\* chunk = await response.content.read(default_chunk_size): at most that many
\* bytes, none only at the end of the body (lines 211-216).
StreamReadChunk ==
    /\ pc = "read"
    /\ Len(response.content) > 0
    /\ \E k \in 1..Min(default_chunk_size, Len(response.content)) :
         LET chunk == SubSeq(response.content, 1, k)
         IN  /\ downloaded' = Advance(downloaded, chunk)
             /\ yielded' = yielded \o chunk
             /\ response' = [response EXCEPT !.content =
                               SubSeq(response.content, k + 1, Len(response.content))]
    /\ UNCHANGED <<resource, hdrMode, bodyMode, max_retries, file_size,
                   stop_pos, tries, pc, err, window_timeouts, recovered,
                   streamHist>>

\* if not chunk: break   (lines 213-214)
StreamBodyEnd ==
    /\ pc = "read"
    /\ Len(response.content) = 0
    /\ pc' = "while"
    /\ UNCHANGED <<resource, hdrMode, bodyMode, max_retries, file_size,
                   downloaded, stop_pos, tries, response, err, yielded,
                   window_timeouts, recovered, streamHist>>

NextStream ==
    \/ StreamWhile /\ UNCHANGED notStreamVars
    \/ StreamMaxRetries /\ UNCHANGED notStreamVars
    \/ StreamRequestOk /\ UNCHANGED notStreamVars
    \/ StreamRequestTimeout /\ UNCHANGED notStreamVars
    \/ StreamRequestError /\ UNCHANGED notStreamVars
    \/ StreamReadChunk /\ UNCHANGED notStreamVars
    \/ StreamBodyEnd /\ UNCHANGED notStreamVars

SpecStream == InitStream /\ [][NextStream]_vars

\* The consumer keeps pulling and the transport keeps answering: whatever
\* step of the generator is possible is eventually taken.
FairSpecStream == SpecStream /\ WF_vars(NextStream)

\* ------------------------------------------------------- claims on stream()
HonestServer == hdrMode = "always" /\ bodyMode = "exact"
IsPrefix(s, t) == Len(s) <= Len(t) /\ s = SubSeq(t, 1, Len(s))

\* C1: against a server that answers every range request with exactly the
\* requested bytes and the true total in Content-Range, the bytes yielded so
\* far are always the first bytes of the resource, in offset order, each once,
\* and a stream that returns has yielded the whole resource [0, total_size).
C1_StreamReproducesResource ==
    HonestServer =>
        /\ IsPrefix(yielded, resource)
        /\ downloaded = Len(yielded)
        /\ (pc = "done" => yielded = resource)

\* C1 witness: a resource larger than two windows and no multiple of the
\* window has been streamed to the end.
C1_Witness ==
    /\ HonestServer
    /\ pc = "done"
    /\ Len(resource) > 2 * default_range_size
    /\ Len(resource) % default_range_size # 0
    /\ yielded = resource

C9_TerminatesWithoutTotal ==
    (hdrMode = "never" /\ bodyMode = "exact") => <>(pc \in {"done", "raised"})

\* =========================================================== seq_stream()
\* The header segments (sq=0) a server may hold.  "S" is `Segment-Count: `.
HeaderSegments ==
    { << >>,
      <<"S", "0">>,
      <<"S", "1">>,
      <<"S", "1", "0">>,
      <<"x", "x", "CR", "LF", "x">>,
      <<"x", "CR", "LF", "S", "2", "CR", "LF", "x">>,
      <<"S", "1", "CR", "LF", "S", "3">>,
      <<"S", "x", "S", "2", "x">>,
      <<"x", "CR", "S", "1", "LF">> }

\* The bytes of segment n >= 1 on the server.
Segment(n) == <<"D", ToString(n)>>

RECURSIVE Segments(_, _)
\* segments from..to, concatenated
Segments(from, to) ==
    IF from > to THEN << >> ELSE Segment(from) \o Segments(from + 1, to)

\* segment_data.split(b'\r\n')   (line 142)
RECURSIVE SplitCRLF(_)
SplitCRLF(bytes) ==
    LET seps == { i \in 1..(Len(bytes) - 1) : bytes[i] = "CR" /\ bytes[i + 1] = "LF" }
    IN  IF seps = {} THEN <<bytes>>
        ELSE LET i == CHOOSE j \in seps : \A k \in seps : j <= k
             IN  <<SubSeq(bytes, 1, i - 1)>>
                   \o SplitCRLF(SubSeq(bytes, i + 2, Len(bytes)))

\* re.compile(b'Segment-Count: (\\d+)').search(line)   (lines 143, 145):
\* << >> when nothing matches, else <<group 1>>, the longest run of digits
\* after the leftmost literal that a digit follows.
SegmentCountMatch(line) ==
    LET starts == { i \in 1..(Len(line) - 1) : line[i] = "S" /\ IsDigit(line[i + 1]) }
    IN  IF starts = {} THEN << >>
        ELSE LET i == CHOOSE j \in starts : \A k \in starts : j <= k
                 ends == { e \in (i + 1)..Len(line) :
                             /\ \A k \in (i + 1)..e : IsDigit(line[k])
                             /\ (e = Len(line) \/ ~IsDigit(line[e + 1])) }
                 e == CHOOSE x \in ends : TRUE
             IN  <<SubSeq(line, i + 1, e)>>

\* for line in stream_info: if match: segment_count = int(...)  (lines 144-147)
\* starting from `count`: every matching line overwrites the name.
RECURSIVE ScanLines(_, _)
ScanLines(lines, count) ==
    IF Len(lines) = 0 THEN count
    ELSE LET m == SegmentCountMatch(Head(lines))
         IN  ScanLines(Tail(lines), IF m = << >> THEN count ELSE <<IntOf(m[1])>>)

SegmentCountOf(bytes) == ScanLines(SplitCRLF(bytes), << >>)

\* A call of seq_stream(): it first iterates stream() on the sq=0 url.
InitSeq ==
    /\ resource \in HeaderSegments
    /\ StreamStart
    /\ sq = 0
    /\ segment_data = << >>
    /\ segment_count = << >>
    /\ seq_num = 0
    /\ seq_pc = "header"
    /\ seq_err = "none"
    /\ seq_yielded = << >>
    /\ requested = {}
    /\ PageIdle
    /\ ExtractIdle
    /\ RequestIdle
    /\ FilesizeIdle
    /\ TrimmedIdle
    /\ CacheIdle

\* async for chunk in stream(...): the inner generator runs on (line 137).
SeqHeaderWhile ==
    /\ seq_pc = "header"
    /\ StreamWhile
    /\ UNCHANGED seqVars

\* The inner stream() raises MaxRetriesExceeded, which leaves seq_stream().
SeqHeaderMaxRetries ==
    /\ seq_pc = "header"
    /\ StreamMaxRetries
    /\ seq_pc' = "raised"
    /\ seq_err' = err'
    /\ UNCHANGED <<sq, segment_data, segment_count, seq_num, seq_yielded, requested>>

SeqHeaderRequestOk ==
    /\ seq_pc = "header"
    /\ StreamRequestOk
    /\ requested' = requested \cup {sq}
    /\ UNCHANGED <<sq, segment_data, segment_count, seq_num, seq_pc, seq_err,
                   seq_yielded>>

SeqHeaderRequestTimeout ==
    /\ seq_pc = "header"
    /\ StreamRequestTimeout
    /\ requested' = requested \cup {sq}
    /\ UNCHANGED <<sq, segment_data, segment_count, seq_num, seq_pc, seq_err,
                   seq_yielded>>

SeqHeaderRequestError ==
    /\ seq_pc = "header"
    /\ StreamRequestError
    /\ requested' = requested \cup {sq}
    /\ seq_pc' = "raised"
    /\ seq_err' = err'
    /\ UNCHANGED <<sq, segment_data, segment_count, seq_num, seq_yielded>>

\* yield chunk; segment_data += chunk   (lines 138-139)
SeqHeaderChunk ==
    /\ seq_pc = "header"
    /\ StreamReadChunk
    /\ LET chunk == SubSeq(yielded', Len(yielded) + 1, Len(yielded'))
       IN  /\ seq_yielded' = seq_yielded \o chunk
           /\ segment_data' = segment_data \o chunk
    /\ UNCHANGED <<sq, segment_count, seq_num, seq_pc, seq_err, requested>>

SeqHeaderBodyEnd ==
    /\ seq_pc = "header"
    /\ StreamBodyEnd
    /\ UNCHANGED seqVars

\* The inner stream() returned: parse the segment count (lines 141-147), then
\* seq_num = 1; while seq_num <= segment_count: await stream(...)
\* (lines 150-158).  With no matching line the name segment_count is unbound
\* and line 151 raises UnboundLocalError.  stream() is an async generator
\* function: stream(...) makes a generator object without running it, and
\* `await` on that object raises TypeError (line 156), before any request.
SeqAfterHeader ==
    /\ seq_pc = "header"
    /\ pc = "done"
    /\ segment_count' = SegmentCountOf(segment_data)
    /\ seq_num' = 1
    /\ IF segment_count' = << >>
       THEN seq_pc' = "raised" /\ seq_err' = "UnboundLocalError" /\ sq' = sq
       ELSE IF seq_num' <= segment_count'[1]
       THEN seq_pc' = "raised" /\ seq_err' = "TypeError" /\ sq' = seq_num'
       ELSE seq_pc' = "done" /\ seq_err' = "none" /\ sq' = sq
    /\ UNCHANGED <<streamVars, segment_data, seq_yielded, requested>>

notSeqVars == <<pageVars, extractVars, requestVars, filesizeVars, trimmedVars,
                cacheVars>>

NextSeq ==
    \/ SeqHeaderWhile /\ UNCHANGED notSeqVars
    \/ SeqHeaderMaxRetries /\ UNCHANGED notSeqVars
    \/ SeqHeaderRequestOk /\ UNCHANGED notSeqVars
    \/ SeqHeaderRequestTimeout /\ UNCHANGED notSeqVars
    \/ SeqHeaderRequestError /\ UNCHANGED notSeqVars
    \/ SeqHeaderChunk /\ UNCHANGED notSeqVars
    \/ SeqHeaderBodyEnd /\ UNCHANGED notSeqVars
    \/ SeqAfterHeader /\ UNCHANGED notSeqVars

SpecSeq == InitSeq /\ [][NextSeq]_vars

\* --------------------------------------------------- claims on seq_stream()
\* C3: a seq_stream() whose header segment was streamed in full and names N
\* segments ends having yielded the header bytes and then the bytes of
\* segments 1..N, in that order, without an error.
C3_SegmentsForwardedInOrder ==
    (/\ seq_pc \in {"done", "raised"}
     /\ pc = "done"
     /\ segment_data = resource
     /\ SegmentCountOf(resource) # << >>)
    => /\ seq_err = "none"
       /\ seq_yielded = resource \o Segments(1, SegmentCountOf(resource)[1])

\* ===================================================== Playlist pagination
\* ------------------------------------------------------------------ bounds
\* Longest list of video items on one page.
MaxItems == 3
\* Longest list of video items on a page of a paginated playlist.
MaxPageItems == 2
\* Number of pages of the longest playlist: its last page has no marker.
MaxPages == 3

VideoIds == {"a", "b"}
Tokens == {"t1", "t2"}

\* An element of a page's item list: a video, or a continuation marker.
Video(id) == [kind |-> "video", val |-> id]
Marker(token) == [kind |-> "marker", val |-> token]

RECURSIVE SeqsUpTo(_, _)
\* the sequences over S of length at most n
SeqsUpTo(S, n) ==
    IF n = 0 THEN { << >> }
    ELSE LET shorter == SeqsUpTo(S, n - 1)
         IN  shorter \cup { Append(q, x) : q \in shorter, x \in S }

\* The item lists a server sends: up to n videos, and possibly a continuation
\* marker with a token of T as the last element.
ItemLists(n, T) ==
    LET videos == SeqsUpTo({ Video(v) : v \in VideoIds }, n)
    IN  videos \cup { Append(q, Marker(t)) : q \in videos, t \in T }

\* A page's JSON, as far as _extract_videos looks at it: the item list found
\* under section 0 of the initial-page tree (sec0), under section 1 (sec1),
\* and the continuationItems of a continuation response (cont); << >> where
\* the path does not exist, else <<item list>>.
Payload(s0, s1, c) == [sec0 |-> s0, sec1 |-> s1, cont |-> c]
Malformed == Payload(<< >>, << >>, << >>)
NoSubmenu(items) == Payload(<<items>>, << >>, << >>)
WithSubmenu(items) == Payload(<< >>, <<items>>, << >>)
ContinuationResponse(items) == Payload(<< >>, << >>, <<items>>)

\* What else a tree may hold at a path that is not the first to resolve.
Decoy == <<Video("z")>>

\* Every payload over an item list: each combination of paths present, the
\* first one consulted holding the items and the others a decoy.
PayloadsOf(items) ==
    { Payload(<<items>>, d1, d2) : d1 \in {<< >>, <<Decoy>>}, d2 \in {<< >>, <<Decoy>>} }
    \cup { Payload(<< >>, <<items>>, d2) : d2 \in {<< >>, <<Decoy>>} }
    \cup { ContinuationResponse(items) }

Payloads ==
    {Malformed} \cup UNION { PayloadsOf(items) : items \in ItemLists(MaxItems, Tokens \cup {""}) }

\* Lines 193-221: the initial-page tree first, section 0 before section 1,
\* then the continuation-response shape; << >> when no path resolves.
ResolveVideos_SubmenuFirst(raw) ==
    IF raw.sec1 # << >> THEN raw.sec1
    ELSE IF raw.sec0 # << >> THEN raw.sec0
    ELSE IF raw.cont # << >> THEN raw.cont
    ELSE << >>
ResolveVideos(raw) ==
    IF raw.sec0 # << >> THEN raw.sec0
    ELSE IF raw.sec1 # << >> THEN raw.sec1
    ELSE IF raw.cont # << >> THEN raw.cont
    ELSE << >>

\* videos[-1]['continuationItemRenderer'][...]['token'] succeeds (lines
\* 224-226): IndexError on an empty list and KeyError on a video are caught.
EndsWithMarker_Mutant(videos) == FALSE
EndsWithMarker(videos) == Len(videos) > 0 /\ videos[Len(videos)].kind = "marker"

\* f"/watch?v={x['playlistVideoRenderer']['videoId']}"   (lines 238-241)
WatchPath(id) == <<"/watch?v=", id>>

RECURSIVE Uniqueify(_)
\* pytube.helpers.uniqueify: the list without the later occurrences
Uniqueify(list) ==
    IF Len(list) = 0 THEN << >>
    ELSE LET front == Uniqueify(SubSeq(list, 1, Len(list) - 1))
             last == list[Len(list)]
         IN  IF \E i \in 1..Len(front) : front[i] = last
             THEN front ELSE Append(front, last)

\* Lines 223-247 of _extract_videos, on the item list it resolved: take the
\* token of a trailing marker and drop the marker, map the rest to watch
\* paths (KeyError on an element that is no video), remove duplicates.
ExtractResolved_NotUnique(items) ==
    LET hasToken == EndsWithMarker(items)
        videos == IF hasToken THEN SubSeq(items, 1, Len(items) - 1) ELSE items
    IN  IF \E i \in 1..Len(videos) : videos[i].kind # "video"
        THEN [videos_urls |-> << >>, continuation |-> None, error |-> "KeyError"]
        ELSE [videos_urls |-> [i \in 1..Len(videos) |-> WatchPath(videos[i].val)],
              continuation |-> IF hasToken THEN items[Len(items)].val ELSE None,
              error |-> "none"]
ExtractResolved(items) ==
    LET hasToken == EndsWithMarker(items)
        videos == IF hasToken THEN SubSeq(items, 1, Len(items) - 1) ELSE items
    IN  IF \E i \in 1..Len(videos) : videos[i].kind # "video"
        THEN [videos_urls |-> << >>, continuation |-> None, error |-> "KeyError"]
        ELSE [videos_urls |->
                 Uniqueify([i \in 1..Len(videos) |-> WatchPath(videos[i].val)]),
              continuation |-> IF hasToken THEN items[Len(items)].val ELSE None,
              error |-> "none"]

\* Playlist._extract_videos(raw_json): the result, or the exception raised.
\* No path resolving is no error: return [], None   (lines 219-221).
ExtractVideos_MalformedRaises(raw) ==
    IF ResolveVideos(raw) = << >>
    THEN [videos_urls |-> << >>, continuation |-> None, error |-> "KeyError"]
    ELSE ExtractResolved(ResolveVideos(raw)[1])
ExtractVideos(raw) ==
    IF ResolveVideos(raw) = << >>
    THEN [videos_urls |-> << >>, continuation |-> None, error |-> "none"]
    ELSE ExtractResolved(ResolveVideos(raw)[1])

\* ---------------------------------------------- one call of _extract_videos
InitExtract ==
    /\ StreamIdle
    /\ SeqIdle
    /\ PageIdle
    /\ raw_json \in Payloads
    /\ extracted = None
    /\ ext_pc = "call"
    /\ RequestIdle
    /\ FilesizeIdle
    /\ TrimmedIdle
    /\ CacheIdle

ExtractCall ==
    /\ ext_pc = "call"
    /\ extracted' = ExtractVideos(raw_json)
    /\ ext_pc' = "done"
    /\ UNCHANGED <<streamVars, seqVars, pageVars, raw_json, requestVars,
                   filesizeVars, trimmedVars, cacheVars>>

NextExtract == ExtractCall

SpecExtract == InitExtract /\ [][NextExtract]_vars

\* ------------------------------------------------------ Playlist._paginate()
\* Python truth of an Optional[str]: None and "" are false.
Truthy(x) == x # None /\ x # ""

\* videos_urls.index(f"/watch?v={until_watch_id}"): the first index, or 0
\* where Python raises ValueError   (lines 108, 134)
IndexOf(list, x) ==
    IF \E i \in 1..Len(list) : list[i] = x
    THEN CHOOSE i \in 1..Len(list) : list[i] = x /\ \A j \in 1..(i - 1) : list[j] # x
    ELSE 0

\* videos_urls[:trim_index]   (lines 109, 135); i is the 1-based index
TrimmedPage_Mutant(list, i) == SubSeq(list, 1, i)
TrimmedPage(list, i) == SubSeq(list, 1, i - 1)

\* _build_continuation_url(continuation): (url, headers, data)  (lines 158-180)
BuildContinuationUrl_Mutant(token) ==
    [load_more_url |-> "https://www.youtube.com/youtubei/v1/browse?key=",
     headers |-> "X-YouTube-Client",
     data |-> [continuation |-> "t1", context |-> "WEB"]]
BuildContinuationUrl(token) ==
    [load_more_url |-> "https://www.youtube.com/youtubei/v1/browse?key=",
     headers |-> "X-YouTube-Client",
     data |-> [continuation |-> token, context |-> "WEB"]]

\* The payloads a server answers with for page number n.
PagePayloads(n) ==
    LET lists == ItemLists(MaxPageItems, IF n < MaxPages THEN Tokens ELSE {})
    IN  {Malformed}
        \cup { IF n = 1 THEN NoSubmenu(l) ELSE ContinuationResponse(l) : l \in lists }

\* A call of _paginate(until_watch_id).
InitPaginate ==
    /\ StreamIdle
    /\ SeqIdle
    /\ ExtractIdle
    /\ RequestIdle
    /\ FilesizeIdle
    /\ TrimmedIdle
    /\ CacheIdle
    /\ until_watch_id \in {None} \cup VideoIds
    /\ videos_urls = << >>
    /\ continuation = None
    /\ data = NoData
    /\ pg_pc = "start"
    /\ pg_err = "none"
    /\ pg_yielded = << >>
    /\ pages = << >>
    /\ requests = << >>

\* A page arrived as raw: extract it, then stop at until_watch_id or yield the
\* whole page   (lines 103-113 for the first page, 131-139 for the others).
PageLoaded(raw) ==
    LET got == ExtractVideos(raw)
        trim_index == IF Truthy(until_watch_id)
                      THEN IndexOf(got.videos_urls, WatchPath(until_watch_id))
                      ELSE 0
    IN  /\ pages' = Append(pages, [raw |-> raw] @@ got)
        /\ IF got.error # "none"
           THEN /\ pg_pc' = "raised"
                /\ pg_err' = got.error
                /\ UNCHANGED <<videos_urls, continuation, pg_yielded>>
           ELSE
             /\ videos_urls' = got.videos_urls
             /\ continuation' = got.continuation
             /\ pg_err' = pg_err
             /\ IF trim_index # 0
                THEN /\ pg_yielded' = Append(pg_yielded,
                                             TrimmedPage(got.videos_urls, trim_index))
                     /\ pg_pc' = "done"
                ELSE /\ pg_yielded' = Append(pg_yielded, got.videos_urls)
                     /\ pg_pc' = "yielded"

\* await self.html answers, the first page is extracted   (lines 103-113).
PaginateFirstPage ==
    /\ pg_pc = "start"
    /\ \E raw \in PagePayloads(1) : PageLoaded(raw)
    /\ UNCHANGED <<until_watch_id, data, requests>>

\* The consumer asks for the next page: build the continuation request if the
\* page had a token, and post it, or end (lines 119-128, 141-146).
PaginateContinue ==
    /\ pg_pc = "yielded"
    /\ LET built == IF Truthy(continuation)
                    THEN BuildContinuationUrl(continuation)
                    ELSE [load_more_url |-> None, headers |-> None, data |-> NoData]
       IN  /\ data' = built.data
           /\ IF built.load_more_url # None /\ built.headers # None /\ built.data # NoData
              THEN /\ requests' = Append(requests, [data |-> built.data,
                                                    yielded_before |-> Len(pg_yielded)])
                   /\ pg_pc' = "posting"
              ELSE /\ requests' = requests
                   /\ pg_pc' = "done"
    /\ UNCHANGED <<until_watch_id, videos_urls, continuation, pg_err, pg_yielded,
                   pages>>

\* The continuation response arrives and is extracted   (lines 128-139).
PaginatePage ==
    /\ pg_pc = "posting"
    /\ \E raw \in PagePayloads(Len(pages) + 1) : PageLoaded(raw)
    /\ UNCHANGED <<until_watch_id, data, requests>>

\* request.get / request.post raises (status 400: PytubeError): not caught.
PaginateRequestError ==
    /\ pg_pc \in {"start", "posting"}
    /\ pg_pc' = "raised"
    /\ pg_err' = "PytubeError"
    /\ UNCHANGED <<until_watch_id, videos_urls, continuation, data, pg_yielded,
                   pages, requests>>

notPageVars == <<streamVars, seqVars, extractVars, requestVars, filesizeVars,
                 trimmedVars, cacheVars>>

NextPaginate ==
    \/ PaginateFirstPage /\ UNCHANGED notPageVars
    \/ PaginateContinue /\ UNCHANGED notPageVars
    \/ PaginatePage /\ UNCHANGED notPageVars
    \/ PaginateRequestError /\ UNCHANGED notPageVars

SpecPaginate == InitPaginate /\ [][NextPaginate]_vars

\* ------------------------------------------------ claims on _extract_videos
\* The item list _extract_videos resolves in raw_json, and its elements
\* before a trailing continuation marker.
ResolvedItems == ResolveVideos(raw_json)[1]
LastIsMarker(items) == Len(items) > 0 /\ items[Len(items)].kind = "marker"
RealItems(items) ==
    IF LastIsMarker(items) THEN SubSeq(items, 1, Len(items) - 1) ELSE items
PathsOf(items) == [i \in 1..Len(items) |-> WatchPath(items[i].val)]
Range(list) == { list[i] : i \in 1..Len(list) }
NoDuplicates(list) == \A i, j \in 1..Len(list) : list[i] = list[j] => i = j
FirstIndex(list, x) == CHOOSE i \in 1..Len(list) :
                          list[i] = x /\ \A j \in 1..(i - 1) : list[j] # x

\* C6: when the resolved item list ends with a continuation marker,
\* _extract_videos returns the marker's token and the identifiers of the
\* elements before the marker; when it does not (an empty list included) it
\* returns None and the identifiers of all elements.
C6_ContinuationMarker ==
    (ext_pc = "done" /\ ResolveVideos(raw_json) # << >>) =>
        /\ extracted.error = "none"
        /\ IF LastIsMarker(ResolvedItems)
           THEN /\ extracted.continuation = ResolvedItems[Len(ResolvedItems)].val
                /\ Range(extracted.videos_urls)
                     = Range(PathsOf(SubSeq(ResolvedItems, 1, Len(ResolvedItems) - 1)))
                /\ WatchPath(ResolvedItems[Len(ResolvedItems)].val)
                     \notin Range(extracted.videos_urls)
           ELSE /\ extracted.continuation = None
                /\ Range(extracted.videos_urls) = Range(PathsOf(ResolvedItems))

\* C6 witness: a list of two videos and a marker gave the token and the two
\* identifiers.
C6_Witness ==
    /\ ext_pc = "done"
    /\ raw_json = ContinuationResponse(<<Video("a"), Video("b"), Marker("t2")>>)
    /\ extracted.continuation = "t2"
    /\ Len(extracted.videos_urls) = 2

\* C7: the identifier list returned for a page holds each identifier of the
\* page once, in the order of the first occurrences in the item list; the
\* items a, b, a without a marker give ([/watch?v=a, /watch?v=b], None).
C7_UniqueInFirstSeenOrder ==
    (ext_pc = "done" /\ ResolveVideos(raw_json) # << >>) =>
        LET ids == PathsOf(RealItems(ResolvedItems))
            out == extracted.videos_urls
        IN  /\ NoDuplicates(out)
            /\ Range(out) = Range(ids)
            /\ \A i, j \in 1..Len(out) :
                  i < j => FirstIndex(ids, out[i]) < FirstIndex(ids, out[j])
            /\ (RealItems(ResolvedItems) = <<Video("a"), Video("b"), Video("a")>>
                 /\ ~LastIsMarker(ResolvedItems)
                 => extracted = [videos_urls |-> <<WatchPath("a"), WatchPath("b")>>,
                                 continuation |-> None, error |-> "none"])

\* C7 witness: the page a, b, a has been extracted.
C7_Witness ==
    /\ ext_pc = "done"
    /\ raw_json = NoSubmenu(<<Video("a"), Video("b"), Video("a")>>)
    /\ extracted.videos_urls = <<WatchPath("a"), WatchPath("b")>>

\* ------------------------------------------------------ claims on _paginate
StopPath == WatchPath(until_watch_id)
HasStop(k) == StopPath \in Range(pages[k].videos_urls)

RECURSIVE Flatten(_)
Flatten(lists) ==
    IF Len(lists) = 0 THEN << >> ELSE Head(lists) \o Flatten(Tail(lists))

\* C4: once the page on which the stop identifier first occurs (page k) is
\* loaded, pages 1..k-1 have been yielded in full, then the part of page k
\* before the identifier, and the enumeration is over: page k is the last
\* page loaded and only k-1 continuation requests were ever posted.
C4_StopsAtIdentifier ==
    (Truthy(until_watch_id) /\ \E k \in 1..Len(pages) : HasStop(k)) =>
        LET k == CHOOSE i \in 1..Len(pages) :
                    HasStop(i) /\ \A j \in 1..(i - 1) : ~HasStop(j)
        IN  /\ Len(pages) = k
            /\ pg_pc = "done"
            /\ pg_err = "none"
            /\ Len(requests) = k - 1
            /\ Len(pg_yielded) = k
            /\ \A j \in 1..(k - 1) : pg_yielded[j] = pages[j].videos_urls
            /\ IsPrefix(pg_yielded[k], pages[k].videos_urls)
            /\ StopPath \notin Range(pg_yielded[k])
            /\ pages[k].videos_urls[Len(pg_yielded[k]) + 1] = StopPath

\* C4 witness: the identifier is the second one of page 2, which carried a
\* continuation token.
C4_Witness ==
    /\ Truthy(until_watch_id)
    /\ Len(pages) = 2
    /\ ~HasStop(1)
    /\ HasStop(2)
    /\ Truthy(pages[1].continuation)
    /\ Truthy(pages[2].continuation)
    /\ Len(pg_yielded[1]) > 0
    /\ Len(pg_yielded[2]) = 1
    /\ pg_pc = "done"

\* C5: no identifier occurs twice in the concatenation of the pages yielded
\* by one call of _paginate.
C5_NoIdentifierTwice == NoDuplicates(Flatten(pg_yielded))

\* C8: a page that matches neither JSON shape, first or later, is extracted
\* as the empty identifier list with no token and raises nothing; it is the
\* last page: _paginate yields the empty page and ends, no continuation
\* request follows it.
C8_MalformedPageEnds ==
    \A k \in 1..Len(pages) :
        pages[k].raw = Malformed =>
            /\ pages[k].error = "none"
            /\ pages[k].videos_urls = << >>
            /\ pages[k].continuation = None
            /\ k = Len(pages)
            /\ Len(requests) = k - 1
            /\ pg_err = "none"
            /\ pg_pc \in {"yielded", "done"}
            /\ Len(pg_yielded) = k
            /\ pg_yielded[k] = << >>

\* C8 witness: the second page was malformed and the enumeration has ended.
C8_Witness ==
    /\ Len(pages) = 2
    /\ pages[2].raw = Malformed
    /\ pg_pc = "done"
    /\ pg_err = "none"
    /\ Len(requests) = 1

\* C10: continuation request k is posted only after page k was extracted and
\* yielded, with exactly the token of page k in its body; there is at most
\* one request per page and never two pages outstanding; after a page
\* without a token no request is posted and the enumeration ends.
C10_SerializedTokenDriven ==
    /\ Len(requests) <= Len(pages)
    /\ Len(pages) <= Len(requests) + 1
    /\ (pg_pc = "posting" => Len(requests) = Len(pages))
    /\ (Len(pages) > 0 /\ Len(requests) = Len(pages)
        => pg_pc \in {"posting", "raised"})
    /\ \A k \in 1..Len(requests) :
          /\ Truthy(pages[k].continuation)
          /\ requests[k].data.continuation = pages[k].continuation
          /\ requests[k].yielded_before = k
          /\ pg_yielded[k] = pages[k].videos_urls
    /\ (/\ Len(pages) > 0
        /\ pages[Len(pages)].error = "none"
        /\ ~Truthy(pages[Len(pages)].continuation)
        /\ pg_pc # "yielded")
       => (pg_pc = "done" /\ Len(requests) = Len(pages) - 1)

\* C10 witness: three pages were loaded by two requests carrying different
\* tokens, and the enumeration ended after the page without a token.
C10_Witness ==
    /\ Len(pages) = 3
    /\ Len(requests) = 2
    /\ requests[1].data.continuation # requests[2].data.continuation
    /\ pages[3].continuation = None
    /\ pg_pc = "done"

\* ============================================================ the transport
\* _execute_request() and its callers get(), post(), head()  (request.py 23-112,
\* 282-292).  A url is a sequence of characters.

\* The timeout parameter's default, in seconds.
DefaultTimeout == 900

\* str.lower(), on the letters that occur in the urls below.
Lower(c) ==
    CASE c = "H" -> "h"
      [] c = "T" -> "t"
      [] c = "P" -> "p"
      [] c = "S" -> "s"
      [] OTHER -> c

LowerStr(s) == [i \in 1..Len(s) |-> Lower(s[i])]

StartsWith(s, prefix) ==
    Len(prefix) <= Len(s) /\ SubSeq(s, 1, Len(prefix)) = prefix

\* url.lower().startswith("http")   (line 41)
HasHttpPrefix(url) == StartsWith(LowerStr(url), <<"h", "t", "t", "p">>)

\* The urls a caller may pass: well formed ones, ones of another scheme, and
\* ones that pass the prefix test but name no host.
Urls ==
    { <<"h", "t", "t", "p", ":", "/", "/", "a">>,
      <<"h", "t", "t", "p", "s", ":", "/", "/", "a">>,
      <<"H", "T", "T", "P", ":", "/", "/", "a">>,
      <<"H", "t", "t", "p", "S", ":", "/", "/", "a">>,
      <<"f", "t", "p", ":", "/", "/", "a">>,
      <<"a">>,
      << >>,
      <<"h", "t", "t">>,
      <<"x", "h", "t", "t", "p", ":", "/", "/", "a">>,
      <<"h", "t", "t", "p">>,
      <<"h", "t", "t", "p", ":", "/", "/">>,
      <<"h", "t", "t", "p", "s", ":", "/", "/">> }

\* aiohttp raises InvalidURL (the exception line 52 catches) for a url without
\* a host: no "://", or nothing after it.
HasHost(url) ==
    \E i \in 1..Len(url) :
        /\ i + 2 < Len(url)
        /\ SubSeq(url, i, i + 2) = <<":", "/", "/">>

\* The statuses a server may answer with.
Statuses == {200, 206, 302, 400, 404, 500}

\* if resp.status == 400: raise PytubeError(...)   (lines 48-49)
IsBadRequest_Mutant(status) == status >= 400
IsBadRequest(status) == status = 400

\* session.request(method, url, headers=base_headers, json=data)
\* (lines 43-47): the timeout parameter of _execute_request is not among the
\* arguments, so the request runs under the session's own timeout.  The
\* timeout field is << >> when none is passed, <<t>> otherwise.
SessionRequest(method, url, timeout) ==
    [method |-> method, url |-> url, timeout |-> << >>]

\* A call of get() / post() (lines 59-112, timeout is the caller's) or of
\* head() (lines 282-292, which passes none: the default applies).
InitRequest ==
    /\ StreamIdle
    /\ SeqIdle
    /\ PageIdle
    /\ ExtractIdle
    /\ FilesizeIdle
    /\ TrimmedIdle
    /\ CacheIdle
    /\ session_closed = FALSE
    /\ req_url \in Urls
    /\ req_method \in {"GET", "POST", "HEAD"}
    /\ req_timeout \in IF req_method = "HEAD" THEN {DefaultTimeout}
                       ELSE {DefaultTimeout, 5, 60}
    /\ req_pc = "call"
    /\ req_err = "none"
    /\ resp_status = << >>
    /\ sent = << >>

\* else: raise ValueError("Invalid URL")   (lines 55-56): nothing is sent.
ExecInvalidScheme ==
    /\ req_pc = "call"
    /\ ~HasHttpPrefix(req_url)
    /\ req_pc' = "raised"
    /\ req_err' = "ValueError"
    /\ UNCHANGED <<session_closed, req_url, req_method, req_timeout,
                   resp_status, sent>>

\* The server answers: status 400 raises PytubeError, any other status is
\* returned as it is (lines 43-51).
ExecResponse ==
    /\ req_pc = "call"
    /\ HasHttpPrefix(req_url)
    /\ HasHost(req_url)
    /\ sent' = Append(sent, SessionRequest(req_method, req_url, req_timeout))
    /\ \E status \in Statuses :
         /\ resp_status' = <<status>>
         /\ IF IsBadRequest(status)
            THEN req_pc' = "raised" /\ req_err' = "PytubeError"
            ELSE req_pc' = "done" /\ req_err' = "none"
    /\ UNCHANGED <<session_closed, req_url, req_method, req_timeout>>

\* session.request() raises InvalidURL: the session is closed, then
\* ValueError("Invalid URL") is raised (lines 52-54).
ExecInvalidURL ==
    /\ req_pc = "call"
    /\ HasHttpPrefix(req_url)
    /\ ~HasHost(req_url)
    /\ sent' = Append(sent, SessionRequest(req_method, req_url, req_timeout))
    /\ session_closed' = TRUE
    /\ req_pc' = "raised"
    /\ req_err' = "ValueError"
    /\ UNCHANGED <<req_url, req_method, req_timeout, resp_status>>

\* session.request() raises anything else (a connection error, a timeout):
\* no handler, the exception leaves the call.
ExecTransportError ==
    /\ req_pc = "call"
    /\ HasHttpPrefix(req_url)
    /\ HasHost(req_url)
    /\ sent' = Append(sent, SessionRequest(req_method, req_url, req_timeout))
    /\ req_pc' = "raised"
    /\ req_err' = "ClientError"
    /\ UNCHANGED <<session_closed, req_url, req_method, req_timeout,
                   resp_status>>

notRequestVars == <<streamVars, seqVars, pageVars, extractVars, filesizeVars,
                    trimmedVars, cacheVars>>

NextRequest ==
    \/ ExecInvalidScheme /\ UNCHANGED notRequestVars
    \/ ExecResponse /\ UNCHANGED notRequestVars
    \/ ExecInvalidURL /\ UNCHANGED notRequestVars
    \/ ExecTransportError /\ UNCHANGED notRequestVars

SpecRequest == InitRequest /\ [][NextRequest]_vars

\* ------------------------------------------------ claims on _execute_request
\* The scheme test of the claim, spelled out letter by letter.
SchemeIsHttp(url) ==
    /\ Len(url) >= 4
    /\ url[1] \in {"h", "H"}
    /\ url[2] \in {"t", "T"}
    /\ url[3] \in {"t", "T"}
    /\ url[4] \in {"p", "P"}

\* C12: _execute_request raises PytubeError exactly when the response status
\* is 400; a response of any other status, 2xx or not, is handed back; a url
\* that does not start with "http" ends in ValueError with no request sent.
C12_BadRequestOnly400 ==
    req_pc \in {"done", "raised"} =>
        /\ req_err = "PytubeError" <=> resp_status = <<400>>
        /\ (resp_status # << >> /\ resp_status # <<400>>) =>
               (req_pc = "done" /\ req_err = "none")
        /\ ~SchemeIsHttp(req_url) =>
               (req_pc = "raised" /\ req_err = "ValueError" /\ sent = << >>)

\* A 404 and a 500 are handed back like a 200.
C12_Witness ==
    /\ req_pc = "done"
    /\ resp_status = <<404>>
    /\ req_err = "none"

\* C20: every request handed to the session carries the timeout the caller
\* gave (900 s when the caller gave none).
C20_CallerTimeoutApplied ==
    \A i \in 1..Len(sent) : sent[i].timeout = <<req_timeout>>

\* ===================================================== one session, two users
\* stream() and a call of get() run concurrently on the same aiohttp session;
\* control changes hands wherever either of them awaits.
InitShared ==
    /\ resource \in { PlainResource(n) : n \in 0..MaxTotal }
    /\ StreamStart
    /\ HonestServer
    /\ SeqIdle
    /\ PageIdle
    /\ ExtractIdle
    /\ FilesizeIdle
    /\ TrimmedIdle
    /\ CacheIdle
    /\ session_closed = FALSE
    /\ req_url \in Urls
    /\ req_method = "GET"
    /\ req_timeout = DefaultTimeout
    /\ req_pc = "call"
    /\ req_err = "none"
    /\ resp_status = << >>
    /\ sent = << >>

\* stream() sends its range request (lines 186-192) through a session that
\* was closed meanwhile: aiohttp raises RuntimeError("Session is closed"),
\* which is no URLError and leaves stream().
StreamRequestClosed ==
    /\ pc = "try"
    /\ ~RetriesExceeded(tries, max_retries)
    /\ session_closed
    /\ pc' = "raised"
    /\ err' = "RuntimeError"
    /\ UNCHANGED <<resource, hdrMode, bodyMode, max_retries, file_size,
                   downloaded, stop_pos, tries, response, yielded,
                   window_timeouts, recovered, streamHist>>

NextShared ==
    \/ StreamWhile /\ UNCHANGED notStreamVars
    \/ StreamMaxRetries /\ UNCHANGED notStreamVars
    \/ ~session_closed /\ StreamRequestOk /\ UNCHANGED notStreamVars
    \/ ~session_closed /\ StreamRequestTimeout /\ UNCHANGED notStreamVars
    \/ ~session_closed /\ StreamRequestError /\ UNCHANGED notStreamVars
    \/ StreamRequestClosed /\ UNCHANGED notStreamVars
    \/ StreamReadChunk /\ UNCHANGED notStreamVars
    \/ StreamBodyEnd /\ UNCHANGED notStreamVars
    \/ ExecInvalidScheme /\ UNCHANGED notRequestVars
    \/ ExecResponse /\ UNCHANGED notRequestVars
    \/ ExecInvalidURL /\ UNCHANGED notRequestVars
    \/ ExecTransportError /\ UNCHANGED notRequestVars

SpecShared == InitShared /\ [][NextShared]_vars

\* The ways stream() can end when it has the session to itself.
AloneOutcomes ==
    {"none", "MaxRetriesExceeded", "URLError", "PytubeError", "ValueError"}

\* C11: a stream() running next to another user of the same session ends as
\* it can end alone, whatever the other user does and however it fails: the
\* session stays usable.
C11_SessionsIndependent == err \in AloneOutcomes

\* ============================================================ seq_filesize()
\* Largest number of segments the server holds.
MaxSegments == 3

\* The content-length a HEAD request for segment n reports (line 277).
ContentLength(n) == IF n \in DOMAIN seg_lengths THEN seg_lengths[n] ELSE 0

RECURSIVE SumLengths(_, _)
\* the content-lengths of segments from..to, added up (lines 272-278)
SumLengths(from, to) ==
    IF from > to THEN 0 ELSE ContentLength(from) + SumLengths(from + 1, to)

\* await response.text()   (line 251): aiohttp decodes the body, the value is
\* a str holding the characters of the header segment.
Text(bytes) == [type |-> "str", chars |-> bytes]

\* value.split(sep): str.split() takes a str separator and bytes.split() a
\* bytes one; any other pairing raises TypeError.
CanSplit(value, sepType) == value.type = sepType

\* The result of seq_filesize() once the sq=0 request was answered
\* (lines 251-279), every HEAD request being answered too.
SeqFilesize(bytes) ==
    LET response_value == Text(bytes)
        total_filesize == Len(response_value.chars)
    IN  IF ~CanSplit(response_value, "bytes")
        THEN [err |-> "TypeError", heads |-> << >>, result |-> << >>]
        ELSE LET count == ScanLines(SplitCRLF(response_value.chars), <<0>>)[1]
             IN  IF count = 0
                 THEN [err |-> "RegexMatchError", heads |-> << >>,
                       result |-> << >>]
                 ELSE [err |-> "none",
                       heads |-> [n \in 1..count |-> n],
                       result |-> <<total_filesize + SumLengths(1, count)>>]

\* A call of seq_filesize() on a url whose sq=0 segment is `resource`.
InitFilesize ==
    /\ StreamIdle
    /\ SeqIdle
    /\ PageIdle
    /\ ExtractIdle
    /\ RequestIdle
    /\ TrimmedIdle
    /\ CacheIdle
    /\ sf_header \in HeaderSegments
    /\ seg_lengths \in [1..MaxSegments -> 1..3]
    /\ sf_pc = "call"
    /\ sf_err = "none"
    /\ sf_result = << >>
    /\ sf_heads = << >>

\* The sq=0 request is answered and the function runs to its end.
SeqFilesizeAnswered ==
    /\ sf_pc = "call"
    /\ LET out == SeqFilesize(sf_header)
       IN  /\ sf_err' = out.err
           /\ sf_heads' = out.heads
           /\ sf_result' = out.result
           /\ sf_pc' = IF out.err = "none" THEN "done" ELSE "raised"
    /\ UNCHANGED <<sf_header, seg_lengths>>

\* The sq=0 request fails in _execute_request (lines 247-249).
SeqFilesizeRequestError ==
    /\ sf_pc = "call"
    /\ \E e \in {"PytubeError", "ValueError", "ClientError"} : sf_err' = e
    /\ sf_pc' = "raised"
    /\ UNCHANGED <<sf_header, seg_lengths, sf_result, sf_heads>>

notFilesizeVars == <<streamVars, seqVars, pageVars, extractVars, requestVars,
                     trimmedVars, cacheVars>>

NextFilesize ==
    \/ SeqFilesizeAnswered /\ UNCHANGED notFilesizeVars
    \/ SeqFilesizeRequestError /\ UNCHANGED notFilesizeVars

SpecFilesize == InitFilesize /\ [][NextFilesize]_vars

\* The sq=0 request of this call was answered.
HeaderAnswered ==
    sf_pc \in {"done", "raised"}
        /\ sf_err \notin {"PytubeError", "ValueError", "ClientError"}

\* C13: once the header segment has arrived, seq_filesize raises
\* RegexMatchError, without a HEAD request, when no line of it holds a
\* Segment-Count; when the count is N >= 1 it returns the length of the header
\* plus the content-lengths of segments 1..N, asked for in that order.
C13_SeqFilesizeContract ==
    HeaderAnswered =>
        LET count == SegmentCountOf(sf_header)
        IN  /\ count = << >> =>
                  (sf_err = "RegexMatchError" /\ sf_heads = << >>)
            /\ (count # << >> /\ count[1] >= 1) =>
                  /\ sf_err = "none"
                  /\ sf_heads = [n \in 1..count[1] |-> n]
                  /\ sf_result = <<Len(sf_header) + SumLengths(1, count[1])>>

\* ========================================================= Playlist.trimmed()
\* Largest number of videos in the playlist trimmed() is called on.
MaxPlaylist == 3

\* The video ids of the docstring's example.
PlaylistIds == {"1", "2", "3", "4"}

\* f"https://www.youtube.com{watch_path}"   (lines 385-386)
VideoUrl(watch_path) == <<"https://www.youtube.com">> \o watch_path

\* What calling self._paginate(...) gives: the body of _paginate holds yield
\* statements (lines 110, 113, 136, 139), so the call runs none of it and
\* returns an async generator object.
PaginateCall == "async_generator"

\* `await x` is defined for coroutines and other awaitables; for an async
\* generator object it raises TypeError.
Awaitable(kind) == kind \in {"coroutine", "future"}

InitTrimmed ==
    /\ StreamIdle
    /\ SeqIdle
    /\ PageIdle
    /\ ExtractIdle
    /\ RequestIdle
    /\ FilesizeIdle
    /\ CacheIdle
    /\ playlist \in SeqsUpTo(PlaylistIds, MaxPlaylist)
    /\ video_id \in PlaylistIds
    /\ tr_pc = "call"
    /\ tr_err = "none"
    /\ tr_yielded = << >>

\* for page in await self._paginate(until_watch_id=video_id):   (line 260)
\* the await is evaluated first, before any page is loaded.
TrimmedAwait ==
    /\ tr_pc = "call"
    /\ ~Awaitable(PaginateCall)
    /\ tr_pc' = "raised"
    /\ tr_err' = "TypeError"
    /\ UNCHANGED <<playlist, video_id, tr_yielded>>

notTrimmedVars == <<streamVars, seqVars, pageVars, extractVars, requestVars,
                    filesizeVars, cacheVars>>

NextTrimmed == TrimmedAwait /\ UNCHANGED notTrimmedVars

SpecTrimmed == InitTrimmed /\ [][NextTrimmed]_vars

\* The urls of the videos that come before the first occurrence of id.
UrlsBefore(list, id) ==
    LET stop == CHOOSE i \in 1..Len(list) :
                    list[i] = id /\ \A j \in 1..(i - 1) : list[j] # id
    IN  [i \in 1..(stop - 1) |-> VideoUrl(WatchPath(list[i]))]

\* C14: trimmed(video_id) on a playlist that holds video_id ends without an
\* exception, having produced the urls of exactly the videos before video_id:
\* for the playlist 1, 2, 3, 4 and video_id 3, those of 1 and 2.
C14_TrimmedGivesPrecedingVideos ==
    (tr_pc \in {"done", "raised"} /\ \E i \in 1..Len(playlist) : playlist[i] = video_id)
        => /\ tr_err = "none"
           /\ tr_yielded = UrlsBefore(playlist, video_id)

\* --------------------------------------------- claims on the two page shapes
\* C15: a page whose video list sits under section index 1 (with a submenu)
\* is extracted to the same result as the page that holds the same list under
\* section index 0 (no submenu); and when index 0 resolves, the result is that
\* of its list whatever index 1 holds.
C15_SubmenuShapesAgree ==
    ext_pc = "done" =>
        /\ raw_json.sec0 # << >> =>
               extracted = ExtractVideos(NoSubmenu(raw_json.sec0[1]))
        /\ (raw_json.sec0 = << >> /\ raw_json.sec1 # << >>) =>
               extracted = ExtractVideos(NoSubmenu(raw_json.sec1[1]))

\* C15 witness: a with-submenu page of two videos and a marker has been
\* extracted to the two identifiers and the token.
C15_Witness ==
    /\ ext_pc = "done"
    /\ raw_json = WithSubmenu(<<Video("a"), Video("b"), Marker("t1")>>)
    /\ extracted = [videos_urls |-> <<WatchPath("a"), WatchPath("b")>>,
                    continuation |-> "t1", error |-> "none"]

\* ------------------------------------------- claims on the range loop's state
\* C16: file_size is set by the first answered request of a stream() call, if
\* at all, and keeps its value from then on: no later response changes it,
\* whether or not the first response carried a usable Content-Range.
C16_TotalSizeSetOnce == [][answered => file_size' = file_size]_vars

C21_NoCountEndsSilently ==
    (/\ seq_pc \in {"done", "raised"}
     /\ pc = "done"
     /\ SegmentCountOf(segment_data) = << >>)
    => /\ seq_pc = "done"
       /\ seq_err = "none"
       /\ seq_yielded = segment_data
       /\ requested \subseteq {0}

\* ---------------------------------------------- claims on the end of stream()
\* C22: a stream() that returns has yielded the whole resource, whether or
\* not the responses carried a usable Content-Range header and however many
\* range windows the resource spans (the server sending, for every request,
\* exactly the bytes of the range asked for).
C22_NeverTruncated ==
    (pc = "done" /\ bodyMode = "exact") => yielded = resource

\* ================================= filesize() and seq_filesize(), called again
\* Largest number of successive calls with the same (url, session).
MaxCalls == 3

\* @lru_cache() on `async def` (lines 220-221, 230-231): calling the function
\* runs none of its body and returns a coroutine object; lru_cache stores
\* that object under (url, session) and hands the very same object to every
\* later call with that key.  An entry is "none" while the key is absent and
\* "finished" once the stored coroutine was awaited to its end, by a return
\* or by an exception.
CacheHit(cache, fn) == cache[fn] # NoCoroutine

\* `await` on a coroutine object that already ran to its end raises
\* RuntimeError (cannot reuse already awaited coroutine).
Reawaited(fn) == [fn |-> fn, err |-> "RuntimeError", result |-> << >>]

\* int((await head(url, session))["content-length"])   (line 227)
FilesizeBody == <<IntOf(content_length)>>

InitSizeCache ==
    /\ StreamIdle
    /\ SeqIdle
    /\ PageIdle
    /\ ExtractIdle
    /\ RequestIdle
    /\ TrimmedIdle
    /\ sf_header \in HeaderSegments
    /\ seg_lengths \in [1..MaxSegments -> 1..2]
    /\ sf_pc = "idle"
    /\ sf_err = "none"
    /\ sf_result = << >>
    /\ sf_heads = << >>
    /\ content_length \in { Decimal(n) : n \in 0..MaxTotal }
    /\ size_cache = EmptyCache
    /\ size_calls = << >>

\* await filesize(url, session): the HEAD request is answered.
FilesizeCall ==
    /\ Len(size_calls) < MaxCalls
    /\ IF CacheHit(size_cache, "filesize")
       THEN /\ size_calls' = Append(size_calls, Reawaited("filesize"))
            /\ UNCHANGED size_cache
       ELSE /\ size_calls' = Append(size_calls,
                 [fn |-> "filesize", err |-> "none", result |-> FilesizeBody])
            /\ size_cache' = [size_cache EXCEPT !.filesize = "finished"]
    /\ UNCHANGED content_length

\* await seq_filesize(url, session): the sq=0 request is answered.
SeqFilesizeCall ==
    /\ Len(size_calls) < MaxCalls
    /\ IF CacheHit(size_cache, "seq_filesize")
       THEN /\ size_calls' = Append(size_calls, Reawaited("seq_filesize"))
            /\ UNCHANGED size_cache
       ELSE /\ LET out == SeqFilesize(sf_header)
               IN  size_calls' = Append(size_calls,
                       [fn |-> "seq_filesize", err |-> out.err,
                        result |-> out.result])
            /\ size_cache' = [size_cache EXCEPT !.seq_filesize = "finished"]
    /\ UNCHANGED content_length

\* The first call of fn for the key runs into a failing request
\* (_execute_request raises): the exception ends the stored coroutine.
SizeCallRequestError ==
    /\ Len(size_calls) < MaxCalls
    /\ \E fn \in {"filesize", "seq_filesize"} :
         /\ ~CacheHit(size_cache, fn)
         /\ \E e \in {"PytubeError", "ValueError", "ClientError"} :
              size_calls' = Append(size_calls,
                  [fn |-> fn, err |-> e, result |-> << >>])
         /\ size_cache' = [size_cache EXCEPT ![fn] = "finished"]
    /\ UNCHANGED content_length

notCacheVars == <<streamVars, seqVars, pageVars, extractVars, requestVars,
                  filesizeVars, trimmedVars>>

NextSizeCache ==
    \/ FilesizeCall /\ UNCHANGED notCacheVars
    \/ SeqFilesizeCall /\ UNCHANGED notCacheVars
    \/ SizeCallRequestError /\ UNCHANGED notCacheVars

SpecSizeCache == InitSizeCache /\ [][NextSizeCache]_vars

\* C23: of the calls of one size query with the same (url, session), every
\* call after one that returned a size completes too, and returns that size.
C23_RepeatedCallsSameSize ==
    \A i, j \in 1..Len(size_calls) :
        (/\ i < j
         /\ size_calls[i].fn = size_calls[j].fn
         /\ size_calls[i].err = "none")
        => /\ size_calls[j].err = "none"
           /\ size_calls[j].result = size_calls[i].result

====
